---------------------------- MODULE Spec2Model ----------------------------
(***************************************************************************)
(* Model of the Sudoku solver: main (src/unnamed/part_001), ParseInput and *)
(* its helpers (src/Parser.go) and SolveSudoku (src/unnamed/part_000).     *)
(*                                                                         *)
(* Runes are modelled by their code points.  A position string such as     *)
(* "A1" is the pair <<row rune, column rune>>.  A Go map[string]rune is a  *)
(* function on Pos; the value 0 is what Go returns for a key that is not   *)
(* in the map.                                                             *)
(***************************************************************************)
EXTENDS Integers, Sequences, FiniteSets

VARIABLES
    args,           \* os.Args[1:], the rows given on the command line
    pc,             \* position of the program
    grid,           \* the map built by ParseInput and searched by SolveSudoku
    input,          \* the contents of the map when ParseInput had read the rows
    err,            \* the error returned by ParseInput ("" is nil)
    valid,          \* result of the last validateInitialGrid call
    usedRows,       \* usedRows[row]: digits marked used in the row
    usedCols,       \* usedCols[col]: digits marked used in the column
    usedSubgrids,   \* usedSubgrids[subgrid]: nil or the digits marked used
    solutionCount,  \* number of solutions counted so far
    solvedGrid,     \* copy of the grid taken at the first solution
    stack,          \* frames of the active solve() calls, innermost last
    ret,            \* value returned by the solve() call that just returned
    result,         \* what SolveSudoku returned to main
    stdout,         \* lines printed by main
    exitCode,       \* exit status of the process
    trace,          \* the placements and undos made by the current SolveSudoku call
    run,            \* 1 in the first SolveSudoku call, 2 in a repeated one
    first           \* what the first call did, kept when the call is repeated

vars == <<args, pc, grid, input, err, valid, usedRows, usedCols, usedSubgrids,
          solutionCount, solvedGrid, stack, ret, result, stdout, exitCode,
          trace, run, first>>

\* The record of a repeated call.
twiceVars == <<run, first>>

solveVars == <<usedRows, usedCols, usedSubgrids, solutionCount, solvedGrid,
               stack, ret>>

-----------------------------------------------------------------------------
(* Runes and positions *)

Dot == 46
One == 49
Nine == 57
RowA == 65
RowI == 73
Space == 32
\* Mutant of MinClues: the threshold off by one.
MinCluesOff == 17 + 1
MinClues == 17
NumRows == 9
RowLen == 9
MinOptionsStart == 10

Digits == One..Nine
RowNames == RowA..RowI
ColNames == One..Nine
Pos == RowNames \X ColNames

\* Row-major scan order of the 81 positions (rows A-I, columns 1-9).
RowMajor == [k \in 1..81 |-> <<RowA + ((k - 1) \div 9), One + ((k - 1) % 9)>>]

\* string('A'+(i-'A')/3*3) + string('1'+(j-'1')/3*3)
SubgridOf(row, col) ==
    <<RowA + ((row - RowA) \div 3) * 3, One + ((col - One) \div 3) * 3>>

Subgrids == {SubgridOf(p[1], p[2]) : p \in Pos}

EmptyMap == [p \in Pos |-> 0]


-----------------------------------------------------------------------------
(* Bounds of the input families *)

\* Number of candidate cells of CandSeq that an input may have blanked.
MaxCand == 8
\* Largest clue count of the sparse grids (clue counts 0..MaxClues).
MaxClues == 18

-----------------------------------------------------------------------------
(* Input grids.  A digit matrix holds 0 for a blank and 1..9 for a clue;   *)
(* ToArgs turns it into the command-line rows the program receives.        *)

Ch(d) == IF d = 0 THEN Dot ELSE One + (d - 1)

ToArgs(rows) == [i \in 1..Len(rows) |-> [j \in 1..Len(rows[i]) |-> Ch(rows[i][j])]]

\* The completed grid of the example puzzle.
Solution ==
    << <<3,9,6,2,4,5,7,8,1>>,
       <<1,7,8,3,6,9,5,2,4>>,
       <<5,2,4,8,1,7,3,9,6>>,
       <<2,8,7,9,5,1,6,4,3>>,
       <<9,3,1,4,8,6,2,7,5>>,
       <<4,6,5,7,2,3,9,1,8>>,
       <<7,1,2,6,3,8,4,5,9>>,
       <<6,5,9,1,7,4,8,3,2>>,
       <<8,4,3,5,9,2,1,6,7>> >>

\* The example puzzle: ".96.4...1" "1...6...4" "5.481.39." ...
ReadmePuzzle ==
    << <<0,9,6,0,4,0,0,0,1>>,
       <<1,0,0,0,6,0,0,0,4>>,
       <<5,0,4,8,1,0,3,9,0>>,
       <<0,0,7,9,5,0,0,4,3>>,
       <<0,3,0,0,8,0,0,0,0>>,
       <<4,0,5,0,2,3,0,1,8>>,
       <<0,1,0,6,3,0,0,5,9>>,
       <<0,5,9,0,7,0,8,3,0>>,
       <<0,0,3,5,9,0,0,0,7>> >>

\* A conflict-free grid of 23 clues with no completion: A9 has no candidate.
DeadGrid ==
    << <<1,2,3,4,5,6,7,8,0>>,
       <<0,0,0,0,0,0,0,0,9>>,
       <<0,0,0,0,0,0,0,0,0>>,
       <<2,0,0,1,0,0,3,0,0>>,
       <<0,1,0,0,2,0,0,4,0>>,
       <<0,0,4,0,0,3,0,0,1>>,
       <<3,0,0,2,0,0,1,0,0>>,
       <<0,4,0,0,1,0,0,0,0>>,
       <<0,0,0,0,0,0,0,0,0>> >>

\* rows with the cells of B (pairs <<i, j>>, 1-based) blanked
BlankCells(rows, B) ==
    [i \in 1..9 |-> [j \in 1..9 |-> IF <<i, j>> \in B THEN 0 ELSE rows[i][j]]]

\* rows with cell <<i, j>> set to d
SetCell(rows, c, d) ==
    [i \in 1..9 |-> [j \in 1..9 |-> IF <<i, j>> = c THEN d ELSE rows[i][j]]]

\* rows keeping only its first k clues in row-major order
KeepFirst(rows, k) ==
    [i \in 1..9 |-> [j \in 1..9 |->
        IF Cardinality({q \in (1..9) \X (1..9) :
                          /\ rows[q[1]][q[2]] # 0
                          /\ (q[1] < i \/ (q[1] = i /\ q[2] <= j))}) <= k
        THEN rows[i][j] ELSE 0]]

\* Cells that the solver inputs may have blanked: two pairs of rows and
\* columns on which Solution holds interchangeable digits (A1 A2 E1 E2 and
\* A4 A6 I4 I6), then further cells.
CandSeq == << <<1,1>>, <<1,2>>, <<5,1>>, <<5,2>>, <<1,4>>, <<1,6>>, <<9,4>>,
              <<9,6>>, <<3,3>>, <<8,8>>, <<6,5>>, <<4,9>> >>

CandCells == {CandSeq[k] : k \in 1..MaxCand}

BoxCells(b) ==
    {<<i, j>> \in (1..9) \X (1..9) : ((i - 1) \div 3) * 3 + ((j - 1) \div 3) = b}

\* Solution with some candidate cells blanked: 0, 1 or several completions.
BlankedInputs == {BlankCells(Solution, B) : B \in SUBSET CandCells}

\* Solution with one whole 3x3 box blanked.
EmptyBoxInputs == {BlankCells(Solution, BoxCells(b)) : b \in 0..8}

\* The example puzzle, alone and with one more clue (A4 = 3 and I6 = 4 leave
\* no completion, A1 = 3 agrees with the solution).
ReadmeInputs ==
    {ReadmePuzzle, SetCell(ReadmePuzzle, <<1,4>>, 3),
     SetCell(ReadmePuzzle, <<9,6>>, 4), SetCell(ReadmePuzzle, <<1,1>>, 3)}

\* Grids of 0..MaxClues clues without conflict.
SparseInputs == {KeepFirst(DeadGrid, k) : k \in 0..MaxClues}

\* Grids of 2..MaxClues clues with the digit of A1 repeated at A2.
SparseConflictInputs ==
    {SetCell(KeepFirst(DeadGrid, k), <<1,2>>, 1) : k \in 2..MaxClues}

\* Grids of many clues with one digit repeated in a row only (C3 = C4 = 8),
\* in a column only (C3 = D3 = 7), in a box only (C3 = A2 = 9).
ConflictInputs ==
    {SetCell(BlankCells(Solution, B \cup {<<2,3>>}), <<3,3>>, 8) : B \in SUBSET {<<9,4>>, <<9,6>>}}
    \cup {SetCell(BlankCells(Solution, {<<3,6>>, <<2,2>>}), <<3,3>>, 7),
          SetCell(BlankCells(Solution, {<<3,8>>, <<8,3>>}), <<3,3>>, 9)}

WellFormedInputs ==
    BlankedInputs \cup EmptyBoxInputs \cup ReadmeInputs \cup SparseInputs
    \cup SparseConflictInputs \cup ConflictInputs

\* Malformed command lines: 8 rows; a row of 8 characters; a row of 10
\* characters; a row holding '0'; a row holding 'x'.
MalformedArgs ==
    LET a == ToArgs(ReadmePuzzle) IN
    { SubSeq(a, 1, 8),
      [a EXCEPT ![3] = SubSeq(a[3], 1, 8)],
      [a EXCEPT ![9] = Append(a[9], Dot)],
      [a EXCEPT ![2][5] = 48],
      [a EXCEPT ![1][1] = 120] }

Inputs == {ToArgs(rows) : rows \in WellFormedInputs} \cup MalformedArgs

-----------------------------------------------------------------------------
(* src/Parser.go *)

NoError == [msg |-> "", n |-> 0]
Errorf(msg, n) == [msg |-> msg, n |-> n]

ErrArgCount == "expected 9 rows of input, got %d"
ErrRowLen == "row %d is not 9 characters long"
ErrChar == "you can only input numbers and dots (invalid character found in row %d)"
ErrClues == "invalid grid: less than 17 clues (only %d clues)"
ErrConflict == "invalid grid: contains conflicts in rows, columns, or subgrids"
ErrEmpty == "invalid grid: the entire grid is empty"

\* (char < '1' || char > '9') && char != '.'
InvalidChar(char) == (char < One \/ char > Nine) /\ char # Dot

\* Index (1-based) of the first invalid character of row, 0 when it has none.
FirstInvalid(row) ==
    LET bad == {j \in 1..Len(row) : InvalidChar(row[j])}
    IN IF bad = {} THEN 0 ELSE CHOOSE j \in bad : \A k \in bad : j <= k

\* The loop over os.Args[1..9] stops at the first row that is too short or
\* too long, or that holds an invalid character; the cells read before that
\* point have been written to the map.
ParseRows(a) ==
    LET badRows == {i \in 1..NumRows :
                      Len(a[i]) # RowLen \/ FirstInvalid(a[i]) # 0}
        stopRow == IF badRows = {} THEN NumRows + 1
                   ELSE CHOOSE i \in badRows : \A k \in badRows : i <= k
        stopCol == IF stopRow > NumRows \/ Len(a[stopRow]) # RowLen THEN 1
                   ELSE FirstInvalid(a[stopRow])
        written(p) == LET i == p[1] - RowA + 1
                          j == p[2] - One + 1
                      IN i < stopRow \/ (i = stopRow /\ j < stopCol)
        g == [p \in Pos |->
                IF written(p) THEN a[p[1] - RowA + 1][p[2] - One + 1] ELSE 0]
        clueCount == Cardinality({p \in Pos : written(p) /\ g[p] # Dot})
    IN [grid |-> g, clueCount |-> clueCount,
        err |-> IF stopRow > NumRows THEN NoError
                ELSE IF Len(a[stopRow]) # RowLen THEN Errorf(ErrRowLen, stopRow)
                ELSE Errorf(ErrChar, stopRow)]

\* Mutant of isValid: the scan of the 3x3 subgrid is left out.
isValidNoSubgrid(g, pos, num) ==
    LET row == pos[1]
        col == pos[2]
    IN /\ \A i \in One..Nine : g[<<row, i>>] # num
       /\ \A i \in RowA..RowI : g[<<i, col>>] # num

\* isValid: num is absent from the row, the column and the 3x3 subgrid of pos
isValid(g, pos, num) ==
    LET row == pos[1]
        col == pos[2]
        startRow == RowA + ((row - RowA) \div 3) * 3
        startCol == One + ((col - One) \div 3) * 3
    IN /\ \A i \in One..Nine : g[<<row, i>>] # num
       /\ \A i \in RowA..RowI : g[<<i, col>>] # num
       /\ \A i \in 0..2 : \A j \in 0..2 : g[<<startRow + i, startCol + j>>] # num

\* What validateInitialGrid does to the cell under test before it calls isValid.
BlankForTest(g, pos) == [g EXCEPT ![pos] = Dot]

\* What validateInitialGrid does when isValid reports a conflict at pos:
\* it returns false at once, with the cell still blanked.
OnConflict(blanked, pos, original) == [ok |-> FALSE, grid |-> blanked]

\* One iteration of the loop of validateInitialGrid, for the key pos.
\* ok = FALSE: the function returns false from inside the loop.
validateKey(g, pos) ==
    LET val == g[pos]
    IN IF val # Dot
       THEN LET original == g[pos]
                blanked == BlankForTest(g, pos)
            IN IF ~isValid(blanked, pos, original)
               THEN OnConflict(blanked, pos, original)
               ELSE [ok |-> TRUE, grid |-> [blanked EXCEPT ![pos] = original]]
       ELSE [ok |-> TRUE, grid |-> g]

\* The iterations for the keys order[lo], ..., order[hi], one after the
\* other, up to the first one that returns false.
RECURSIVE validateFrom(_, _, _, _)
validateFrom(g, order, lo, hi) ==
    IF lo > hi THEN [ok |-> TRUE, grid |-> g]
    ELSE IF lo = hi THEN validateKey(g, order[lo])
    ELSE LET mid == (lo + hi) \div 2
             r == validateFrom(g, order, lo, mid)
         IN IF ~r.ok THEN r ELSE validateFrom(r.grid, order, mid + 1, hi)

\* validateInitialGrid, visiting the keys of the map in the given order.
validateInitialGrid(g, order) == validateFrom(g, order, 1, Len(order))

\* Go leaves the iteration order of a map unspecified: any key can be the
\* first one visited.  The orders taken are the row-major order started at
\* a key s.  A visit of a key that passes isValid leaves the map as it was,
\* so the order started at s ends as the order started at the first failing
\* key from s on does: it is enough to start at the first key and at every
\* failing key.
StartKeys(g) ==
    {1} \cup {s \in 1..81 :
                /\ g[RowMajor[s]] # Dot
                /\ ~isValid(BlankForTest(g, RowMajor[s]), RowMajor[s],
                            g[RowMajor[s]])}

IterationOrders(g) ==
    {[k \in 1..81 |-> RowMajor[((k + s - 2) % 81) + 1]] : s \in StartKeys(g)}

\* Only the keys present in the map are visited.
isEmptyGrid(g) == \A p \in Pos : g[p] # 0 => g[p] = Dot

-----------------------------------------------------------------------------
(* src/unnamed/part_000: SolveSudoku *)

\* A map[rune]bool is the set of the runes it maps to true.  An entry of
\* usedSubgrids is nil until a clue of the subgrid allocates it.
NilMap == [alloc |-> FALSE, nums |-> {}]

\* Lines 33-60: the tracking maps derived from the initial grid.
InitUsedRows(g) ==
    [i \in RowNames |-> {g[<<i, j>>] : j \in ColNames} \ {Dot}]

InitUsedCols(g) ==
    [j \in ColNames |-> {g[<<i, j>>] : i \in RowNames} \ {Dot}]

InitUsedSubgrids(g) ==
    [sg \in Subgrids |->
        LET vals == {g[p] : p \in {q \in Pos : SubgridOf(q[1], q[2]) = sg}} \ {Dot}
        IN IF vals = {} THEN NilMap ELSE [alloc |-> TRUE, nums |-> vals]]

\* Mutant of CanPlace: the column is not consulted.
CanPlaceNoCol(uR, uC, uS, row, col, num) ==
    /\ num \notin uR[row]
    /\ num \notin uS[SubgridOf(row, col)].nums

\* !usedRows[i][num] && !usedCols[j][num] && !usedSubgrids[subgrid][num]
\* (reading a nil map yields false)
CanPlace(uR, uC, uS, row, col, num) ==
    /\ num \notin uR[row]
    /\ num \notin uC[col]
    /\ num \notin uS[SubgridOf(row, col)].nums

\* The number of digits 1-9 that can be placed at <<row, col>>.
Options(uR, uC, uS, row, col) ==
    Cardinality({num \in Digits : CanPlace(uR, uC, uS, row, col, num)})

\* The position "" returned when no cell is empty.
NoCell == <<0, 0>>

\* Mutant of Better: a cell with as few options as the best so far
\* replaces it.
BetterOrEqual(options, minOptions) == options <= minOptions

\* if options < minOptions { minOptions = options; bestCell = pos }
Better(options, minOptions) == options < minOptions

\* findNextCell, lines 71-87: the inner loop, over the columns j..'9' of
\* row i.
RECURSIVE scanCols(_, _, _, _, _, _, _, _)
scanCols(g, uR, uC, uS, i, j, minOptions, bestCell) ==
    IF j > Nine THEN [pos |-> bestCell, minOptions |-> minOptions]
    ELSE LET pos == <<i, j>>
         IN IF g[pos] = Dot
            THEN LET options == Options(uR, uC, uS, i, j)
                 IN IF Better(options, minOptions)
                    THEN scanCols(g, uR, uC, uS, i, j + 1, options, pos)
                    ELSE scanCols(g, uR, uC, uS, i, j + 1, minOptions, bestCell)
            ELSE scanCols(g, uR, uC, uS, i, j + 1, minOptions, bestCell)

\* findNextCell, lines 70-88: the outer loop, over the rows i..'I'.
RECURSIVE scanRows(_, _, _, _, _, _, _)
scanRows(g, uR, uC, uS, i, minOptions, bestCell) ==
    IF i > RowI THEN [pos |-> bestCell, minOptions |-> minOptions]
    ELSE LET r == scanCols(g, uR, uC, uS, i, One, minOptions, bestCell)
         IN scanRows(g, uR, uC, uS, i + 1, r.minOptions, r.pos)

findNextCell(g, uR, uC, uS) ==
    scanRows(g, uR, uC, uS, RowA, MinOptionsStart, NoCell)

\* copyGrid(src, dest): every key of src is written to dest.
copyGrid(src, dest) == [p \in Pos |-> IF src[p] # 0 THEN src[p] ELSE dest[p]]

\* Mutant of OnSolved: the grid is copied at every counted solution.
OnSolvedCopyEach(count, g, solved) ==
    LET c == count + 1
    IN [count |-> c, solvedGrid |-> copyGrid(g, solved), stop |-> c > 1]

\* Lines 113-119: what the caller does when the recursive call returned
\* true.  stop: the caller returns false at once, before its undo.
OnSolved(count, g, solved) ==
    LET c == count + 1
    IN [count |-> c,
        solvedGrid |-> IF c = 1 THEN copyGrid(g, solved) ELSE solved,
        stop |-> c > 1]

\* Mutant of UndoGrid: the cell is not set back to '.'.
UndoGridKeep(g, pos) == g

\* Mutant of UndoRows: the digit stays marked as used in the row.
UndoRowsKeep(uR, pos, num) == uR

\* Lines 122-123: the undo of the placement of num at pos.
UndoGrid(g, pos) == [g EXCEPT ![pos] = Dot]
UndoRows(uR, pos, num) == [uR EXCEPT ![pos[1]] = @ \ {num}]
UndoCols(uC, pos, num) == [uC EXCEPT ![pos[2]] = @ \ {num}]
UndoSubgrids(uS, pos, num) ==
    [uS EXCEPT ![SubgridOf(pos[1], pos[2])].nums = @ \ {num}]

\* Mutant of SolveResult: success is reported whenever a solution was counted.
SolveResultAny(count, g, solved) ==
    IF count = 0 THEN [grid |-> g, ok |-> FALSE]
    ELSE [grid |-> solved, ok |-> TRUE]

\* Lines 131-134: what SolveSudoku returns.
SolveResult(count, g, solved) ==
    IF count # 1 THEN [grid |-> g, ok |-> FALSE]
    ELSE [grid |-> solved, ok |-> TRUE]

-----------------------------------------------------------------------------
(* src/unnamed/part_001: main *)

\* printSudoku: one line per row, every cell followed by a space.
printSudoku(g) ==
    [i \in 1..9 |-> [k \in 1..18 |->
        IF k % 2 = 1 THEN g[<<RowA + (i - 1), One + ((k - 1) \div 2)>>]
        ELSE Space]]

\* What main prints once SolveSudoku has returned (solvedGrid, solved).
MainOutput(r) ==
    IF r.ok THEN << <<"Sudoku solved successfully:">> >> \o printSudoku(r.grid)
    ELSE <<>>

NoResult == [grid |-> EmptyMap, ok |-> FALSE]

\* The record of the first call while the call has not been repeated.
NoFirst == [trace |-> <<>>, result |-> NoResult, count |-> 0]

\* exitCode while the process has not exited
Running == 0 - 1

-----------------------------------------------------------------------------
(* The program *)

Init ==
    /\ args \in Inputs
    /\ pc = "ParseInput"
    /\ grid = EmptyMap
    /\ input = EmptyMap
    /\ err = NoError
    /\ valid = TRUE
    /\ usedRows = [i \in RowNames |-> {}]
    /\ usedCols = [j \in ColNames |-> {}]
    /\ usedSubgrids = [sg \in Subgrids |-> NilMap]
    /\ solutionCount = 0
    /\ solvedGrid = EmptyMap
    /\ stack = <<>>
    /\ ret = FALSE
    /\ result = NoResult
    /\ stdout = <<>>
    /\ exitCode = Running
    /\ trace = <<>>
    /\ run = 1
    /\ first = NoFirst

\* ParseInput, lines 25-70: argument count, rows, characters, clue count.
ParseArgs ==
    /\ pc = "ParseInput"
    /\ UNCHANGED <<trace, run, first>>
    /\ IF Len(args) + 1 # 10
       THEN /\ err' = Errorf(ErrArgCount, Len(args))
            /\ grid' = grid
            /\ input' = input
            /\ pc' = "parsed"
       ELSE LET r == ParseRows(args)
            IN /\ grid' = r.grid
               /\ input' = r.grid
               /\ err' = IF r.err # NoError THEN r.err
                         ELSE IF r.clueCount < MinClues
                              THEN Errorf(ErrClues, r.clueCount)
                              ELSE NoError
               /\ pc' = IF r.err = NoError /\ r.clueCount >= MinClues
                        THEN "validateInitialGrid" ELSE "parsed"
    /\ UNCHANGED <<args, valid, result, stdout, exitCode>>
    /\ UNCHANGED solveVars

\* ParseInput, line 74: the call of validateInitialGrid on the map.
ValidateInitialGrid ==
    /\ pc = "validateInitialGrid"
    /\ UNCHANGED <<trace, run, first>>
    /\ \E order \in IterationOrders(grid) :
          LET r == validateInitialGrid(grid, order)
          IN /\ valid' = r.ok
             /\ grid' = r.grid
    /\ pc' = "validated"
    /\ UNCHANGED <<args, input, err, result, stdout, exitCode>>
    /\ UNCHANGED solveVars

\* ParseInput, lines 74-84: the conflict error, the emptiness check, return.
ParseFinish ==
    /\ pc = "validated"
    /\ UNCHANGED <<trace, run, first>>
    /\ err' = IF ~valid THEN Errorf(ErrConflict, 0)
              ELSE IF isEmptyGrid(grid) THEN Errorf(ErrEmpty, 0)
              ELSE NoError
    /\ pc' = "parsed"
    /\ UNCHANGED <<args, input, grid, valid, result, stdout, exitCode>>
    /\ UNCHANGED solveVars

\* main, lines 13-18: on an error print it and exit with status 1.
MainParseError ==
    /\ pc = "parsed"
    /\ UNCHANGED <<trace, run, first>>
    /\ err # NoError
    /\ stdout' = << <<"Error:", err>> >>
    /\ exitCode' = 1
    /\ pc' = "exit"
    /\ UNCHANGED <<args, input, grid, err, valid, result>>
    /\ UNCHANGED solveVars

\* SolveSudoku with the solution counter kept in a package-level variable
\* that a call does not reset.
SolveSudokuStartKeepCount ==
    /\ pc = "parsed"
    /\ UNCHANGED <<trace, run, first>>
    /\ err = NoError
    /\ usedRows' = InitUsedRows(grid)
    /\ usedCols' = InitUsedCols(grid)
    /\ usedSubgrids' = InitUsedSubgrids(grid)
    /\ solvedGrid' = EmptyMap
    /\ stack' = <<>>
    /\ pc' = "solve"
    /\ UNCHANGED <<args, input, grid, err, valid, ret, result, stdout, exitCode,
                   solutionCount>>

\* main without the test of err: SolveSudoku is called on whatever grid
\* ParseInput returned.
SolveSudokuStartNoCheck ==
    /\ pc = "parsed"
    /\ UNCHANGED <<trace, run, first>>
    /\ usedRows' = InitUsedRows(grid)
    /\ usedCols' = InitUsedCols(grid)
    /\ usedSubgrids' = InitUsedSubgrids(grid)
    /\ solutionCount' = 0
    /\ solvedGrid' = EmptyMap
    /\ stack' = <<>>
    /\ pc' = "solve"
    /\ UNCHANGED <<args, input, grid, err, valid, ret, result, stdout, exitCode>>

\* main, line 21, and SolveSudoku, lines 33-65: the tracking maps, the
\* counter and the map of the solved grid.
SolveSudokuStart ==
    /\ pc = "parsed"
    /\ UNCHANGED <<trace, run, first>>
    /\ err = NoError
    /\ usedRows' = InitUsedRows(grid)
    /\ usedCols' = InitUsedCols(grid)
    /\ usedSubgrids' = InitUsedSubgrids(grid)
    /\ solutionCount' = 0
    /\ solvedGrid' = EmptyMap
    /\ stack' = <<>>
    /\ pc' = "solve"
    /\ UNCHANGED <<args, input, grid, err, valid, ret, result, stdout, exitCode>>

\* solve, lines 95-105: select the cell; return true on a full grid, false
\* on a cell without option; otherwise start the loop over the digits.
SolveEnter ==
    /\ pc = "solve"
    /\ UNCHANGED <<trace, run, first>>
    /\ LET f == findNextCell(grid, usedRows, usedCols, usedSubgrids)
       IN IF f.pos = NoCell
          THEN /\ ret' = TRUE
               /\ pc' = "returned"
               /\ stack' = stack
          ELSE IF f.minOptions = 0
          THEN /\ ret' = FALSE
               /\ pc' = "returned"
               /\ stack' = stack
          ELSE /\ stack' = Append(stack, [pos |-> f.pos, num |-> One])
               /\ pc' = "loop"
               /\ ret' = ret
    /\ UNCHANGED <<args, input, grid, err, valid, usedRows, usedCols, usedSubgrids,
                   solutionCount, solvedGrid, result, stdout, exitCode>>

Top == stack[Len(stack)]

NextNum == [stack EXCEPT ![Len(stack)].num = @ + 1]

\* solve, lines 107-112: one iteration of the loop up to the recursive call.
\* Writing to the nil map of a subgrid without clue panics, after the grid,
\* usedRows and usedCols have been written.
TryNum ==
    /\ pc = "loop"
    /\ UNCHANGED twiceVars
    /\ Top.num <= Nine
    /\ LET pos == Top.pos
           num == Top.num
           sg == SubgridOf(pos[1], pos[2])
       IN IF CanPlace(usedRows, usedCols, usedSubgrids, pos[1], pos[2], num)
          THEN /\ grid' = [grid EXCEPT ![pos] = num]
               /\ usedRows' = [usedRows EXCEPT ![pos[1]] = @ \cup {num}]
               /\ usedCols' = [usedCols EXCEPT ![pos[2]] = @ \cup {num}]
               /\ IF usedSubgrids[sg].alloc
                  THEN /\ usedSubgrids' =
                            [usedSubgrids EXCEPT ![sg].nums = @ \cup {num}]
                       /\ pc' = "solve"
                  ELSE /\ usedSubgrids' = usedSubgrids
                       /\ pc' = "panic"
               /\ stack' = stack
               /\ trace' = Append(trace, <<"place", pos, num>>)
          ELSE /\ stack' = NextNum
               /\ pc' = "loop"
               /\ UNCHANGED <<grid, usedRows, usedCols, usedSubgrids, trace>>
    /\ UNCHANGED <<args, input, err, valid, solutionCount, solvedGrid, ret, result,
                   stdout, exitCode>>

\* solve, line 126: the loop is over, return false.
LoopEnd ==
    /\ pc = "loop"
    /\ UNCHANGED <<trace, run, first>>
    /\ Top.num > Nine
    /\ stack' = SubSeq(stack, 1, Len(stack) - 1)
    /\ ret' = FALSE
    /\ pc' = "returned"
    /\ UNCHANGED <<args, input, grid, err, valid, usedRows, usedCols, usedSubgrids,
                   solutionCount, solvedGrid, result, stdout, exitCode>>

\* solve, lines 112-124: the recursive call returned to its caller.
AfterCall ==
    /\ pc = "returned"
    /\ UNCHANGED twiceVars
    /\ stack # <<>>
    /\ LET pos == Top.pos
           num == Top.num
           s == IF ret THEN OnSolved(solutionCount, grid, solvedGrid)
                ELSE [count |-> solutionCount, solvedGrid |-> solvedGrid,
                      stop |-> FALSE]
       IN /\ solutionCount' = s.count
          /\ solvedGrid' = s.solvedGrid
          /\ IF s.stop
             THEN /\ stack' = SubSeq(stack, 1, Len(stack) - 1)
                  /\ ret' = FALSE
                  /\ pc' = "returned"
                  /\ UNCHANGED <<grid, usedRows, usedCols, usedSubgrids, trace>>
             ELSE /\ grid' = UndoGrid(grid, pos)
                  /\ trace' = Append(trace, <<"undo", pos, num>>)
                  /\ usedRows' = UndoRows(usedRows, pos, num)
                  /\ usedCols' = UndoCols(usedCols, pos, num)
                  /\ usedSubgrids' = UndoSubgrids(usedSubgrids, pos, num)
                  /\ stack' = NextNum
                  /\ ret' = ret
                  /\ pc' = "loop"
    /\ UNCHANGED <<args, input, err, valid, result, stdout, exitCode>>

\* SolveSudoku, lines 129-134: the outermost solve() returned.
SolveSudokuReturn ==
    /\ pc = "returned"
    /\ UNCHANGED <<trace, run, first>>
    /\ stack = <<>>
    /\ result' = SolveResult(solutionCount, grid, solvedGrid)
    /\ pc' = "print"
    /\ UNCHANGED <<args, input, grid, err, valid, stdout, exitCode>>
    /\ UNCHANGED solveVars

\* main, lines 22-28: print the solved grid, or nothing.
MainPrint ==
    /\ pc = "print"
    /\ UNCHANGED <<trace, run, first>>
    /\ stdout' = MainOutput(result)
    /\ exitCode' = 0
    /\ pc' = "exit"
    /\ UNCHANGED <<args, input, grid, err, valid, result>>
    /\ UNCHANGED solveVars

Next ==
    \/ ParseArgs
    \/ ValidateInitialGrid
    \/ ParseFinish
    \/ MainParseError
    \/ SolveSudokuStart
    \/ SolveEnter
    \/ TryNum
    \/ LoopEnd
    \/ AfterCall
    \/ SolveSudokuReturn
    \/ MainPrint

Spec == Init /\ [][Next]_vars

\* A caller that calls SolveSudoku a second time on a grid equal to the one
\* of the first call: what the first call did is kept in first, the grid is
\* the input again and the function starts anew (lines 33-65).
Rerun ==
    /\ pc = "print"
    /\ run = 1
    /\ first' = [trace |-> trace, result |-> result, count |-> solutionCount]
    /\ run' = 2
    /\ trace' = <<>>
    /\ grid' = input
    /\ result' = NoResult
    /\ pc' = "parsed"
    /\ UNCHANGED <<args, input, err, valid, usedRows, usedCols, usedSubgrids,
                   solutionCount, solvedGrid, stack, ret, stdout, exitCode>>

NextTwice ==
    \/ Next
    \/ Rerun

SpecTwice == Init /\ [][NextTwice]_vars

-----------------------------------------------------------------------------
(* Sudoku rules, stated on grids without reference to the program *)

SameUnit(p, q) ==
    \/ p[1] = q[1]
    \/ p[2] = q[2]
    \/ /\ (p[1] - RowA) \div 3 = (q[1] - RowA) \div 3
       /\ (p[2] - One) \div 3 = (q[2] - One) \div 3

Peers == [p \in Pos |-> {q \in Pos \ {p} : SameUnit(p, q)}]

Units ==
    {{<<r, c>> : c \in ColNames} : r \in RowNames}
    \cup {{<<r, c>> : r \in RowNames} : c \in ColNames}
    \cup {{q \in Pos : SubgridOf(q[1], q[2]) = sg} : sg \in Subgrids}

\* g is a full grid in which every row, column and box holds each digit once.
IsSudoku(g) ==
    /\ \A p \in Pos : g[p] \in Digits
    /\ \A u \in Units : \A d \in Digits :
          Cardinality({p \in u : g[p] = d}) = 1

\* c fills the blanks of g and keeps its clues.
Extends(c, g) == \A p \in Pos : g[p] # Dot => c[p] = g[p]

Blanks(g) == {p \in Pos : g[p] = Dot}

\* All completions of g, by filling the first blank in every way that
\* repeats no digit of a peer.
RECURSIVE Completions(_)
Completions(g) ==
    LET blanks == {k \in 1..81 : g[RowMajor[k]] = Dot}
    IN IF blanks = {} THEN (IF IsSudoku(g) THEN {g} ELSE {})
       ELSE LET k == CHOOSE i \in blanks : \A j \in blanks : i <= j
                p == RowMajor[k]
            IN UNION {Completions([g EXCEPT ![p] = d]) :
                        d \in {e \in Digits : \A q \in Peers[p] : g[q] # e}}

\* SolveSudoku has returned to main.
Returned == pc \in {"print", "exit"} /\ err = NoError

-----------------------------------------------------------------------------
(* Claims *)

\* C1: if SolveSudoku returns true, the returned grid has no blank cell,
\* agrees with the input on every clue, holds each digit once in every row,
\* column and box, and is the only such completion of the input.
C1_UniqueSolutionIsTheCompletion ==
    (Returned /\ result.ok) =>
        /\ \A p \in Pos : result.grid[p] \in Digits
        /\ Extends(result.grid, input)
        /\ IsSudoku(result.grid)
        /\ Completions(input) = {result.grid}

\* C1 witness: the example puzzle (41 blanks) has been solved.
C1_Witness ==
    /\ Returned
    /\ result.ok
    /\ args = ToArgs(ReadmePuzzle)
    /\ Cardinality(Blanks(input)) = 41

\* C2 (as claimed): for a validated grid with a blank, the solver reports
\* true with the completion when exactly one completion exists, and false
\* when none or several exist; a run that panics reports neither.
C2_ClassifiesByCompletions ==
    (/\ err = NoError
     /\ pc \in {"print", "exit", "panic"}
     /\ Blanks(input) # {}) =>
        /\ pc # "panic"
        /\ LET cs == Completions(input)
           IN IF Cardinality(cs) = 1
              THEN result.ok /\ result.grid \in cs
              ELSE ~result.ok

\* C3 (as claimed): SolveSudoku never panics on a grid that passed
\* validation.
C3_NeverPanics == pc # "panic"

\* C4 (as claimed): when two or more solutions have been counted, the grid
\* returned is the input grid and the tracking maps are those derived from
\* the input.
C4_MultipleSolutionsRestored ==
    (Returned /\ solutionCount >= 2) =>
        /\ result.grid = input
        /\ usedRows = InitUsedRows(input)
        /\ usedCols = InitUsedCols(input)
        /\ usedSubgrids = InitUsedSubgrids(input)

\* C5: when the search has ended with the counter at 0 or 1, the map of the
\* caller holds its original contents again, and with the counter at 0 the
\* grid returned is that original grid, with false.
C5_GridRestored ==
    /\ (pc = "returned" /\ stack = <<>> /\ solutionCount \in {0, 1}) =>
          grid = input
    /\ (Returned /\ solutionCount \in {0, 1}) => grid = input
    /\ (Returned /\ solutionCount = 0) =>
          (result.grid = input /\ ~result.ok)

\* C5 witness: a search of the example puzzle with I6 = 4 added has made
\* placements, found no solution and returned.
C5_Witness ==
    /\ Returned
    /\ solutionCount = 0
    /\ args = ToArgs(SetCell(ReadmePuzzle, <<9,6>>, 4))

-----------------------------------------------------------------------------
(* The command line, read without reference to the program *)

\* Nine rows of nine characters, each a digit 1-9 or a dot.
WellFormed(a) ==
    /\ Len(a) = 9
    /\ \A i \in 1..9 : Len(a[i]) = 9
    /\ \A i \in 1..9 : \A j \in 1..9 : a[i][j] \in Digits \cup {Dot}

CellOf(a, p) == a[p[1] - RowA + 1][p[2] - One + 1]

ArgClues(a) == Cardinality({p \in Pos : CellOf(a, p) # Dot})

\* Some digit stands twice in a row, a column or a box.
ArgHasDup(a) ==
    \E p \in Pos : /\ CellOf(a, p) # Dot
                   /\ \E q \in Peers[p] : CellOf(a, q) = CellOf(a, p)

\* ParseInput has returned to main.
Parsed == pc \notin {"ParseInput", "validateInitialGrid", "validated"}

\* Nothing of SolveSudoku has run.
SolverUntouched ==
    /\ pc \in {"parsed", "exit"}
    /\ stack = <<>>
    /\ solutionCount = 0
    /\ result = NoResult

\* C6: a well-formed grid of fewer than 17 clues fails with the
\* too-few-clues error and no grid reaches the solver; a grid of 17 or more
\* clues is never rejected for its clue count.
C6_ClueThreshold ==
    /\ (pc = "parsed" /\ WellFormed(args)) =>
          IF ArgClues(args) < 17
          THEN err = Errorf(ErrClues, ArgClues(args))
          ELSE err.msg # ErrClues
    /\ err.msg = ErrClues =>
          (SolverUntouched /\ (pc = "exit" => exitCode = 1))

\* C6 witness: a grid of 16 clues has been rejected.
C6_Witness ==
    /\ pc = "parsed"
    /\ WellFormed(args)
    /\ ArgClues(args) = 16
    /\ err.msg = ErrClues

\* C7 (as claimed): a grid of 81 blanks fails with the error "the entire
\* grid is empty", not with the too-few-clues error.
C7_EmptyGridReported ==
    (Parsed /\ WellFormed(args) /\ ArgClues(args) = 0) =>
        err.msg = ErrEmpty

\* C8 (as claimed): every grid that repeats a digit in a row, column or box
\* fails with the conflict error; and a grid of at least 17 clues without
\* such a repeat passes validateInitialGrid in every visiting order.
C8_ConflictDetectedAlways ==
    /\ (pc = "parsed" /\ WellFormed(args) /\ ArgHasDup(args)) =>
          err.msg = ErrConflict
    /\ (pc = "validated" /\ ~ArgHasDup(args)) => valid

\* C8 (amended): every grid of at least 17 clues that repeats a digit in a
\* row, column or box fails with the conflict error, in every visiting
\* order, and the solver does not run; and a grid of at least 17 clues
\* without such a repeat passes validateInitialGrid in every visiting order.
C8_ConflictDetected ==
    /\ (pc = "parsed" /\ WellFormed(args) /\ ArgClues(args) >= 17
          /\ ArgHasDup(args)) =>
          err.msg = ErrConflict
    /\ err.msg = ErrConflict => SolverUntouched
    /\ (pc = "validated" /\ ArgHasDup(args)) => ~valid
    /\ (pc = "validated" /\ ~ArgHasDup(args)) => valid
    /\ (pc = "parsed" /\ WellFormed(args) /\ ArgClues(args) >= 17
          /\ ~ArgHasDup(args)) =>
          err = NoError

\* C8 witness: a grid that repeats a digit in one box only, and in no row
\* and no column, has been rejected with the conflict error.
C8_Witness ==
    /\ pc = "parsed"
    /\ err.msg = ErrConflict
    /\ args = ToArgs(SetCell(BlankCells(Solution, {<<3,8>>, <<8,3>>}),
                             <<3,3>>, 9))

\* C9 (as claimed): when validateInitialGrid has returned, with either
\* result, every cell of the map holds the value it held before the call.
C9_ValidationLeavesGrid == pc = "validated" => grid = input

\* What main reports of a solve in which count solutions were counted.
Reported(count) ==
    LET r == SolveResult(count, grid, solvedGrid)
    IN <<r.ok, MainOutput(r)>>

\* C10 (as claimed): a puzzle without solution and a puzzle with several
\* solutions are reported differently, and the user is notified in each of
\* the two cases.
C10_FailuresDistinguished ==
    (pc = "exit" /\ err = NoError /\ Blanks(input) # {}) =>
        /\ solutionCount # 1 => stdout # <<>>
        /\ solutionCount = 0 => Reported(0) # Reported(2)

-----------------------------------------------------------------------------
(* C11: one input, one search *)

\* t is the beginning of u.
IsPrefix(t, u) == Len(t) <= Len(u) /\ SubSeq(u, 1, Len(t)) = t

\* C11: a second call of SolveSudoku on a grid equal to the first call's
\* makes the same placements and undos in the same order at every point,
\* and ends with the same counter, the same outcome and the same grid.
C11_Deterministic ==
    run = 2 =>
        /\ IsPrefix(trace, first.trace)
        /\ pc \in {"print", "exit"} =>
               /\ trace = first.trace
               /\ result = first.result
               /\ solutionCount = first.count

\* A second call that ended after a search with placements and undos.
C11_Witness ==
    /\ run = 2
    /\ pc = "print"
    /\ result.ok
    /\ \E i \in 1..Len(trace) : trace[i][1] = "undo"

-----------------------------------------------------------------------------
(* C12: the search starts only after validation *)

\* SolveSudoku is running or has run.
SolverActive == pc \in {"solve", "loop", "returned", "panic", "print"}

\* C12: in a run in which ParseInput fails (shape, character, clue count,
\* conflict, emptiness) SolveSudoku is never invoked and nothing is placed;
\* and at the moment SolveSudoku is invoked the command line is nine rows of
\* nine digits or dots with at least 17 clues and no repeated digit in a
\* row, column or box, and the grid handed over is the parsed one.
C12_SearchAfterValidation ==
    /\ err # NoError => (SolverUntouched /\ trace = <<>>)
    /\ SolverActive => (err = NoError /\ valid)
    /\ (pc = "solve" /\ stack = <<>> /\ trace = <<>>) =>
          /\ WellFormed(args)
          /\ ArgClues(args) >= MinClues
          /\ ~ArgHasDup(args)
          /\ grid = input
          /\ \A p \in Pos : grid[p] = CellOf(args, p)

\* C12 witness: a run whose validation failed on a conflict has ended with
\* exit status 1 and without a placement.
C12_Witness ==
    /\ pc = "exit"
    /\ exitCode = 1
    /\ err.msg = ErrConflict
    /\ trace = <<>>
    /\ grid # EmptyMap

-----------------------------------------------------------------------------
(* C13: the stop after the second solution *)

\* C13 (as claimed): once the counter exceeds 1 the search is over: every
\* level returns, no cell is selected and no digit is tried or placed any
\* more, and the counter never exceeds 2.
C13_StopsAfterSecondSolution ==
    /\ solutionCount <= 2
    /\ solutionCount > 1 => pc \in {"returned", "print", "exit"}

-----------------------------------------------------------------------------
(* C14: the used-digit sets and the grid *)

\* The non-blank digits that g holds in the cells of the set u.
DigitsIn(g, u) == {g[p] : p \in u} \ {Dot}

\* The cells of every row, of every column and of every box.
RowCells == [i \in RowNames |-> {<<i, j>> : j \in ColNames}]
ColCells == [j \in ColNames |-> {<<i, j>> : i \in RowNames}]
SubgridCells == [sg \in Subgrids |-> {q \in Pos : SubgridOf(q[1], q[2]) = sg}]

\* C14: before and after every placement, every undo and every return of
\* the search, the returns without undo after the second solution included,
\* the used-digit set of every row, of every column and of every box is the
\* set of the non-blank digits the grid holds there.
C14_UsedSetsMatchGrid ==
    (pc \in {"solve", "loop", "returned"} \/ Returned) =>
        /\ \A i \in RowNames : usedRows[i] = DigitsIn(grid, RowCells[i])
        /\ \A j \in ColNames : usedCols[j] = DigitsIn(grid, ColCells[j])
        /\ \A sg \in Subgrids :
              usedSubgrids[sg].nums = DigitsIn(grid, SubgridCells[sg])

\* C14 witness: the frame that counted the second solution has returned
\* without its undo, the grid is still full.
C14_Witness ==
    /\ pc = "returned"
    /\ solutionCount = 2
    /\ stack # <<>>
    /\ Blanks(grid) = {}

-----------------------------------------------------------------------------
(* C15: the grid without blank *)

\* C15 (as claimed): when the grid handed to SolveSudoku has no blank cell,
\* the counter ends at 1 and SolveSudoku returns true with the input grid.
C15_FullGridIsUnique ==
    (Returned /\ Blanks(input) = {}) =>
        /\ solutionCount = 1
        /\ result.ok
        /\ result.grid = input

-----------------------------------------------------------------------------
(* C16: the selection of the cell *)

\* The digits that no peer of p holds in g.
Placeable(g, p) == {d \in Digits : \A q \in Peers[p] : g[q] # d}

\* The rank of p in the row-major order A1, A2, ..., I9.
RowMajorRank(p) == (p[1] - RowA) * 9 + (p[2] - One) + 1

\* The blank cell of g with the fewest placeable digits, the first in
\* row-major order among those.
MostConstrained(g) ==
    LET blanks == Blanks(g)
        n == [p \in blanks |-> Cardinality(Placeable(g, p))]
    IN CHOOSE p \in blanks :
          \A q \in blanks :
             \/ n[p] < n[q]
             \/ n[p] = n[q] /\ RowMajorRank(p) <= RowMajorRank(q)

\* What one entry of solve does, told from the grid alone.
SelectionStep ==
    /\ UNCHANGED <<grid, usedRows, usedCols, usedSubgrids, solutionCount,
                   solvedGrid, trace>>
    /\ IF Blanks(grid) = {}
       THEN pc' = "returned" /\ ret' /\ stack' = stack
       ELSE LET best == MostConstrained(grid)
            IN IF Placeable(grid, best) = {}
               THEN pc' = "returned" /\ ~ret' /\ stack' = stack
               ELSE /\ pc' = "loop"
                    /\ stack' = Append(stack, [pos |-> best, num |-> One])

\* C16: the cell selected is a blank cell with the fewest placeable digits,
\* the first of those in row-major order; no cell is selected exactly when
\* the grid has no blank, and the call then returns true; and when the
\* selected cell has no placeable digit the call returns false at once,
\* with the grid, the used-digit sets and the stack of frames as they were.
C16_CellSelection == [][pc = "solve" => SelectionStep]_vars

\* C16 witness: the cell just selected is not the first blank cell in
\* row-major order, and another blank cell has as few placeable digits.
C16_Witness ==
    /\ pc = "loop"
    /\ Top.num = One
    /\ \E p \in Blanks(grid) : RowMajorRank(p) < RowMajorRank(Top.pos)
    /\ \E p \in Blanks(grid) \ {Top.pos} :
          Cardinality(Placeable(grid, p)) =
             Cardinality(Placeable(grid, Top.pos))

-----------------------------------------------------------------------------
(* C17: the captured solution *)

\* C17: solvedGrid is written at the step that takes the counter from 0 to
\* 1, as the full live grid of that moment, and at no other step: no
\* placement, undo or later counted solution changes a cell of it; and the
\* grid returned with true is solvedGrid.
C17_CapturedOnce ==
    [][/\ (solutionCount = 0 /\ solutionCount' = 1) =>
             /\ solvedGrid' = grid
             /\ \A p \in Pos : grid[p] \in Digits
       /\ solvedGrid' # solvedGrid =>
             (solutionCount = 0 /\ solutionCount' = 1)
       /\ solutionCount' >= solutionCount
       /\ (result' # result /\ result'.ok) =>
             (result'.grid = solvedGrid /\ solutionCount = 1)
      ]_vars

\* C17 witness: a second solution has been counted, the live grid is full
\* and differs from the captured one.
C17_Witness ==
    /\ solutionCount >= 2
    /\ Blanks(grid) = {}
    /\ Blanks(solvedGrid) = {}
    /\ grid # solvedGrid

-----------------------------------------------------------------------------
(* C18: termination *)

\* C18 (as claimed): once a grid has passed validation the run never stops
\* short of the return of SolveSudoku to main and the exit of the program:
\* it is at a point of main or of the search from which it goes on, or it
\* has exited; and the number of frames of solve never exceeds the number
\* of blank cells of the input.
C18_SearchTerminates ==
    (Parsed /\ err = NoError) =>
        /\ Len(stack) <= Cardinality(Blanks(input))
        /\ pc \in {"parsed", "solve", "loop", "returned", "print", "exit"}

-----------------------------------------------------------------------------
(* C19: the grid during the search *)

\* No row, column or box of g holds a digit twice.
NoRepeat(g) ==
    \A u \in Units :
       Cardinality(DigitsIn(g, u)) = Cardinality({p \in u : g[p] # Dot})

\* C19: in every state of the search and after it, the state of a placement
\* cut short by a panic included, no row, column or box of the grid holds a
\* digit twice, every cell is blank or a digit, and every clue cell of the
\* input holds its clue.
C19_GridStaysConsistent ==
    SolverActive \/ Returned =>
        /\ NoRepeat(grid)
        /\ \A p \in Pos : grid[p] \in Digits \cup {Dot}
        /\ \A p \in Pos : input[p] # Dot => grid[p] = input[p]

\* C19 witness: the search is five frames deep and has undone a placement.
C19_Witness ==
    /\ pc = "solve"
    /\ Len(stack) >= 5
    /\ \E i \in 1..Len(trace) : trace[i][1] = "undo"
    /\ grid # input

=============================================================================
